---- MODULE Spec2Model ----
(***************************************************************************)
(* dirmap (src/src/lib.rs): build_tree walks a directory tree with two     *)
(* rayon passes over the enumerated entries, calc_size folds the own sizes *)
(* bottom-up with an explicit Process/Calculate stack, and map writes the  *)
(* sizes back and encodes the snapshot.                                    *)
(*                                                                         *)
(* A path string is modelled by the sequence of its '/'-separated          *)
(* segments: "d" is <<"d">>, "p/d" is <<"p","d">>, "d/" (trailing          *)
(* separator) is <<"d","">> and the filesystem root "/" is <<"/">>.        *)
(* Option values are sequences: None is <<>>, Some(x) is <<x>>.            *)
(* Sizes are naturals: u64 wrap-around is not modelled.                    *)
(***************************************************************************)
EXTENDS Naturals, Sequences, FiniteSets, TLC

VARIABLES
  start_path,   \* map / build_tree / calc_size argument
  entries,      \* build_tree: the Vec of enumerated DirEntry (lib.rs:93-96)
  pc,           \* position of the calling thread
  taskA,        \* first par_iter: per entry, "todo" | "done"
  taskB,        \* second par_iter: per entry, position of its closure
  local,        \* second par_iter: per entry, the File built by File::new
  dirs,         \* the HashMap<String, Dir> (build_tree's `dirs`, map's `tree`)
  error,        \* build_tree's error slot: <<>> or <<e>>
  dirs_lock,    \* holder of the `dirs` mutex (0: free)
  error_lock,   \* holder of the `error` mutex (0: free)
  err_log,      \* history: every value stored into the error slot, in order
  stack,        \* calc_size's work stack
  sizes,        \* calc_size's result map
  ret,          \* the Err a function returned: <<>> or <<e>>
  out,          \* map's returned bytes: <<>> or <<bytes>>
  unmapped      \* unmap's returned mapping: <<>> or <<dirs>>

vars == <<start_path, entries, pc, taskA, taskB, local, dirs, error,
          dirs_lock, error_lock, err_log, stack, sizes, ret, out, unmapped>>

buildVars == <<entries, taskA, taskB, local, error, dirs_lock, error_lock, err_log>>

----------------------------------------------------------------------------
(* Bounds *)

\* longest children list of a hand-made snapshot given to calc_size
MaxKids == 2
\* calc_size is cut off when its stack would pass this length
MaxStack == 8
\* most entries an enumeration holds, the start path's own entry included
MaxEntries == 4

\* the longest file list the methods of Dir are followed to
MaxFiles == 3

----------------------------------------------------------------------------
(* Generic helpers *)

EmptyMap == [k \in {} |-> 0]

Put(m, k, v) == [x \in (DOMAIN m) \cup {k} |-> IF x = k THEN v ELSE m[x]]

SeqsUpTo(S, n) == UNION {[1..k -> S] : k \in 0..n}

Range(s) == {s[i] : i \in DOMAIN s}

RECURSIVE SumSizes(_, _)
\* sum of m[s[i]] over the sequence s (lib.rs:191-195, under all keys present)
SumSizes(m, s) ==
  IF s = <<>> THEN 0 ELSE m[Head(s)] + SumSizes(m, Tail(s))

----------------------------------------------------------------------------
(* Data model, lib.rs:10-42 *)

DefaultDir == [size |-> 0, file |-> <<>>, children |-> <<>>]

RECURSIVE FileSizeSum(_)
\* the sum remove_file recomputes, lib.rs:32
FileSizeSum(fs) ==
  IF fs = <<>> THEN 0 ELSE Head(fs).size + FileSizeSum(Tail(fs))

\* mutant: the file is pushed, its size is not added
add_file_PushOnly(d, f) == [d EXCEPT !.file = Append(@, f)]

\* mutant: the size is set, not accumulated
add_file_SetSize(d, f) == [d EXCEPT !.size = f.size, !.file = Append(@, f)]

\* Dir::add_file, lib.rs:25-28
add_file(d, f) == [d EXCEPT !.size = @ + f.size, !.file = Append(@, f)]

\* Dir::add_child, lib.rs:35-37
add_child(d, c) == [d EXCEPT !.children = Append(@, c)]

\* mutant: the files are dropped, the size is not recomputed
remove_file_KeepsSize(d, files) ==
  [d EXCEPT !.file = SelectSeq(@, LAMBDA f : \A i \in DOMAIN files : files[i] # f.name)]

\* Dir::remove_file, lib.rs:30-33: retain the files whose name is not in
\* files, then recompute the size from the files left
remove_file(d, files) ==
  LET kept == SelectSeq(d.file, LAMBDA f : \A i \in DOMAIN files : files[i] # f.name)
  IN  [d EXCEPT !.file = kept, !.size = FileSizeSum(kept)]

\* Dir::remove_child, lib.rs:39-41
remove_child(d, children) ==
  [d EXCEPT !.children = SelectSeq(@, LAMBDA c : \A i \in DOMAIN children : children[i] # c)]

----------------------------------------------------------------------------
(* Paths: std::path and path_slash as build_tree uses them (unix build) *)

Last(s) == s[Len(s)]

Front(s) == SubSeq(s, 1, Len(s) - 1)

\* Path::components: a trailing separator contributes no component
Components(p) == SelectSeq(p, LAMBDA seg : seg # "")

\* Path::parent (lib.rs:116, 133): None for "" and for "/", else the path
\* without its last component ("" for a single relative component)
Parent(p) ==
  LET c == Components(p)
  IN  IF c = <<>> THEN <<>>
      ELSE IF Last(c) = "/" THEN <<>>
      ELSE <<Front(c)>>

\* PathBuf::push of one name, as read_dir forms an entry's path
Join(p, name) == Append(IF p # <<>> /\ Last(p) = "" THEN Front(p) ELSE p, name)

RECURSIVE JoinAll(_, _)
JoinAll(p, names) ==
  IF names = <<>> THEN p ELSE JoinAll(Join(p, Head(names)), Tail(names))

\* to_string_lossy of one name: "u1" and "u2" stand for two names that are not
\* valid UTF-8; every invalid sequence is rendered as U+FFFD, written "u"
LossyName(seg) == IF seg \in {"u1", "u2"} THEN "u" ELSE seg

\* PathExt::to_slash_lossy (lib.rs:103, 117, 139, 140); the unix build keeps
\* the separators, a trailing one included
ToSlashLossy(p) == [i \in DOMAIN p |-> LossyName(p[i])]

\* Path::extension of a file name, by table: <<>> when there is none
Extension(name) ==
  CASE name = "f.PNG" -> <<"PNG">>
    [] name = "h.jpeg" -> <<"jpeg">>
    [] OTHER -> <<>>

\* str::to_lowercase on the extensions above
ToLowercase(ext) == IF ext = "PNG" THEN "png" ELSE ext

\* File::recognize_file_type, lib.rs:58-70
recognize_file_type(path) ==
  LET e == Extension(Last(path))
  IN  IF e = <<>> THEN 5
      ELSE CASE ToLowercase(e[1]) = "png" -> 0
             [] ToLowercase(e[1]) \in {"jpg", "jpeg"} -> 1
             [] ToLowercase(e[1]) = "webp" -> 2
             [] ToLowercase(e[1]) = "svg" -> 3
             [] ToLowercase(e[1]) = "gif" -> 4
             [] OTHER -> 5

\* File::new when the metadata call succeeds, lib.rs:45-56
FileOf(e) ==
  [typ |-> recognize_file_type(e.path),
   name |-> LossyName(Last(e.path)),
   size |-> e.len]

----------------------------------------------------------------------------
(* build_tree, lib.rs:91-156 *)

Tasks == DOMAIN entries

\* Option<parent> of entry i's path
ParentOf(i) == Parent(entries[i].path)

\* the key build_tree looks the parent up under, lib.rs:117, 139
ParentKey(i) == ToSlashLossy(ParentOf(i)[1])

\* mutant: the first pass registers the path without converting it
RegisteredKey_Raw(i) == entries[i].path

\* the key the first pass registers a directory entry under, lib.rs:103
RegisteredKey(i) == ToSlashLossy(entries[i].path)

\* the string the second pass appends to the parent's children, lib.rs:140
DirKey(i) == ToSlashLossy(entries[i].path)

\* first par_iter, lib.rs:99-105: insert the directory if absent
PhaseAInsert(i) ==
  /\ pc = "phaseA"
  /\ taskA[i] = "todo"
  /\ dirs_lock = 0
  /\ dirs' = IF RegisteredKey(i) \in DOMAIN dirs
               THEN dirs
               ELSE Put(dirs, RegisteredKey(i), DefaultDir)
  /\ taskA' = [taskA EXCEPT ![i] = "done"]
  /\ UNCHANGED <<start_path, entries, pc, taskB, local, error, dirs_lock,
                 error_lock, err_log, stack, sizes, ret, out, unmapped>>

\* the first for_each returns when every closure has run; lib.rs:108
PhaseAJoin ==
  /\ pc = "phaseA"
  /\ \A i \in Tasks : taskA[i] # "todo"
  /\ pc' = "phaseB"
  /\ UNCHANGED <<start_path, entries, taskA, taskB, local, dirs, error,
                 dirs_lock, error_lock, err_log, stack, sizes, ret, out, unmapped>>

\* where the closure goes after a check that found no error, lib.rs:114-137
AfterCheck(i) ==
  IF entries[i].typ = "file"
    THEN IF ParentOf(i) = <<>> THEN "done" ELSE "stat"
  ELSE IF entries[i].typ = "dir"
    THEN IF ParentOf(i) = <<>> THEN "done"
         ELSE IF ParentOf(i)[1] = <<>> THEN "done"
         ELSE "want_dirs"
  ELSE "done"

\* mutant: the guard taken for the check is kept while the closure goes on
BCheck_KeepsGuard(i) ==
  /\ pc = "phaseB"
  /\ taskB[i] = "start"
  /\ error_lock = 0
  /\ taskB' = [taskB EXCEPT ![i] = IF error # <<>> THEN "done" ELSE AfterCheck(i)]
  /\ error_lock' = IF error # <<>> THEN 0 ELSE i
  /\ UNCHANGED <<start_path, entries, pc, taskA, local, dirs, error,
                 dirs_lock, err_log, stack, sizes, ret, out, unmapped>>

\* mutant: the closure goes on whatever the error slot holds
BCheck_IgnoresError(i) ==
  /\ pc = "phaseB"
  /\ taskB[i] = "start"
  /\ error_lock = 0
  /\ taskB' = [taskB EXCEPT ![i] = AfterCheck(i)]
  /\ UNCHANGED <<start_path, entries, pc, taskA, local, dirs, error,
                 dirs_lock, error_lock, err_log, stack, sizes, ret, out, unmapped>>

\* lib.rs:110-112: error.lock().is_some() takes the error guard for the one
\* read and drops it; return if an error is there
BCheck(i) ==
  /\ pc = "phaseB"
  /\ taskB[i] = "start"
  /\ error_lock = 0
  /\ taskB' = [taskB EXCEPT ![i] = IF error # <<>> THEN "done" ELSE AfterCheck(i)]
  /\ UNCHANGED <<start_path, entries, pc, taskA, local, dirs, error,
                 dirs_lock, error_lock, err_log, stack, sizes, ret, out, unmapped>>

\* lib.rs:118-119: File::new(entry) is Ok(file)
BStatOk(i) ==
  /\ pc = "phaseB"
  /\ taskB[i] = "stat"
  /\ local' = [local EXCEPT ![i] = <<FileOf(entries[i])>>]
  /\ taskB' = [taskB EXCEPT ![i] = "want_dirs"]
  /\ UNCHANGED <<start_path, entries, pc, taskA, dirs, error, dirs_lock,
                 error_lock, err_log, stack, sizes, ret, out, unmapped>>

\* lib.rs:118, 127: File::new(entry) is Err(e), the metadata call failed
BStatErr(i) ==
  /\ pc = "phaseB"
  /\ taskB[i] = "stat"
  /\ taskB' = [taskB EXCEPT ![i] = "want_err"]
  /\ UNCHANGED <<start_path, entries, pc, taskA, local, dirs, error, dirs_lock,
                 error_lock, err_log, stack, sizes, ret, out, unmapped>>

\* lib.rs:120, 142: dirs.lock()
BLockDirs(i) ==
  /\ pc = "phaseB"
  /\ taskB[i] = "want_dirs"
  /\ dirs_lock = 0
  /\ dirs_lock' = i
  /\ taskB' = [taskB EXCEPT ![i] = "in_dirs"]
  /\ UNCHANGED <<start_path, entries, pc, taskA, local, dirs, error,
                 error_lock, err_log, stack, sizes, ret, out, unmapped>>

\* mutant: a file is not added to its parent
Updated_DropsFile(i) ==
  IF entries[i].typ = "file"
    THEN dirs[ParentKey(i)]
    ELSE add_child(dirs[ParentKey(i)], DirKey(i))

\* the parent's record after entry i is added to it, lib.rs:122, 144
Updated(i) ==
  IF entries[i].typ = "file"
    THEN add_file(dirs[ParentKey(i)], local[i][1])
    ELSE add_child(dirs[ParentKey(i)], DirKey(i))

\* lib.rs:121-125, 143-147: get_mut(parent); found: update, the guard is
\* dropped; not found: go on to store the error, still holding the guard
BUpdate(i) ==
  /\ pc = "phaseB"
  /\ taskB[i] = "in_dirs"
  /\ IF ParentKey(i) \in DOMAIN dirs
       THEN /\ dirs' = [dirs EXCEPT ![ParentKey(i)] = Updated(i)]
            /\ dirs_lock' = 0
            /\ taskB' = [taskB EXCEPT ![i] = "done"]
       ELSE /\ taskB' = [taskB EXCEPT ![i] = "want_err"]
            /\ UNCHANGED <<dirs, dirs_lock>>
  /\ UNCHANGED <<start_path, entries, pc, taskA, local, error,
                 error_lock, err_log, stack, sizes, ret, out, unmapped>>

\* lib.rs:124, 128, 146: error.lock()
BErrLock(i) ==
  /\ pc = "phaseB"
  /\ taskB[i] = "want_err"
  /\ error_lock = 0
  /\ error_lock' = i
  /\ taskB' = [taskB EXCEPT ![i] = "storing"]
  /\ UNCHANGED <<start_path, entries, pc, taskA, local, dirs, error,
                 dirs_lock, err_log, stack, sizes, ret, out, unmapped>>

\* the error entry i stores: a missing parent when it holds the dirs guard
\* (lib.rs:124, 146), else the metadata failure of File::new (lib.rs:128)
ErrorOf(i) ==
  IF dirs_lock = i
    THEN [kind |-> "missing_parent", path |-> ParentKey(i)]
    ELSE [kind |-> "metadata", path |-> <<LossyName(Last(entries[i].path))>>]

\* lib.rs:124, 128, 146: *guard = Some(e); both guards are dropped
BStore(i) ==
  /\ pc = "phaseB"
  /\ taskB[i] = "storing"
  /\ error' = <<ErrorOf(i)>>
  /\ err_log' = Append(err_log, ErrorOf(i))
  /\ error_lock' = 0
  /\ dirs_lock' = IF dirs_lock = i THEN 0 ELSE dirs_lock
  /\ taskB' = [taskB EXCEPT ![i] = "done"]
  /\ UNCHANGED <<start_path, entries, pc, taskA, local, dirs,
                 stack, sizes, ret, out, unmapped>>

\* lib.rs:151-155: the second for_each has returned; error.lock().take()
BuildReturn ==
  /\ pc = "phaseB"
  /\ \A i \in Tasks : taskB[i] = "done"
  /\ IF error # <<>>
       THEN pc' = "bt_err" /\ ret' = error /\ error' = <<>>
       ELSE pc' = "bt_ok" /\ UNCHANGED <<ret, error>>
  /\ UNCHANGED <<start_path, entries, taskA, taskB, local, dirs,
                 dirs_lock, error_lock, err_log, stack, sizes, out, unmapped>>

----------------------------------------------------------------------------
(* calc_size, lib.rs:158-203 *)

Process(p) == [tag |-> "Process", path |-> p]

Calculate(p) == [tag |-> "Calculate", path |-> p]

Top == stack[Len(stack)]

Rest == SubSeq(stack, 1, Len(stack) - 1)

\* the `?` of calc_size: the function returns Err, its locals are dropped
CalcFail(path) ==
  /\ pc' = "calc_err"
  /\ ret' = <<[kind |-> "missing_dir", path |-> path]>>
  /\ stack' = <<>>
  /\ sizes' = EmptyMap

\* mutant: the Process arm leaves the item it popped on the stack
ProcessPushes_KeepsItem(path) ==
  <<Process(path), Calculate(path)>> \o
  [i \in 1..Len(dirs[path].children) |-> Process(dirs[path].children[i])]

\* mutant: Calculate(path) is pushed after the children, so it is popped first
ProcessPushes_CalculateLast(path) ==
  [i \in 1..Len(dirs[path].children) |-> Process(dirs[path].children[i])] \o
  <<Calculate(path)>>

\* items pushed by the Process arm: Calculate(path), then Process of each child
ProcessPushes(path) ==
  <<Calculate(path)>> \o
  [i \in 1..Len(dirs[path].children) |-> Process(dirs[path].children[i])]

\* the Process arm of the loop, lib.rs:171-183
CalcProcess ==
  /\ pc = "calc"
  /\ stack # <<>>
  /\ Top.tag = "Process"
  /\ IF Top.path \notin DOMAIN dirs
       THEN CalcFail(Top.path)
       ELSE /\ Len(Rest) + 1 + Len(dirs[Top.path].children) <= MaxStack
            /\ stack' = Rest \o ProcessPushes(Top.path)
            /\ UNCHANGED <<pc, sizes, ret>>
  /\ UNCHANGED <<start_path, dirs, out, unmapped>>
  /\ UNCHANGED buildVars

\* mutant: the children's sizes are not added
CalculatedSize_OwnOnly(path) == dirs[path].size

\* the size the Calculate arm records for path, lib.rs:189-195
CalculatedSize(path) == dirs[path].size + SumSizes(sizes, dirs[path].children)

\* the Calculate arm of the loop, lib.rs:184-198
CalcCalculate ==
  /\ pc = "calc"
  /\ stack # <<>>
  /\ Top.tag = "Calculate"
  /\ IF Top.path \notin DOMAIN dirs
       THEN CalcFail(Top.path)
       ELSE IF \E c \in Range(dirs[Top.path].children) : c \notin DOMAIN sizes
         THEN CalcFail(Top.path)
         ELSE /\ sizes' = Put(sizes, Top.path, CalculatedSize(Top.path))
              /\ stack' = Rest
              /\ UNCHANGED <<pc, ret>>
  /\ UNCHANGED <<start_path, dirs, out, unmapped>>
  /\ UNCHANGED buildVars

\* the loop ends on an empty stack: Ok(sizes), lib.rs:169, 202
CalcReturn ==
  /\ pc = "calc"
  /\ stack = <<>>
  /\ pc' = "calc_ok"
  /\ UNCHANGED <<start_path, dirs, stack, sizes, ret, out, unmapped>>
  /\ UNCHANGED buildVars

----------------------------------------------------------------------------
(* map, lib.rs:73-83 *)

\* lib.rs:74: build_tree(start_path)? returned Err
MapBuildErr ==
  /\ pc = "bt_err"
  /\ pc' = "map_err"
  /\ UNCHANGED <<start_path, dirs, stack, sizes, ret, out, unmapped>>
  /\ UNCHANGED buildVars

\* lib.rs:75: calc_size(&tree, start_path) is entered, lib.rs:159-167
MapCallCalc ==
  /\ pc = "bt_ok"
  /\ pc' = "calc"
  /\ stack' = <<Process(start_path)>>
  /\ sizes' = EmptyMap
  /\ UNCHANGED <<start_path, dirs, ret, out, unmapped>>
  /\ UNCHANGED buildVars

\* lib.rs:75: calc_size(..)? returned Err
MapCalcErr ==
  /\ pc = "calc_err"
  /\ pc' = "map_err"
  /\ UNCHANGED <<start_path, dirs, stack, sizes, ret, out, unmapped>>
  /\ UNCHANGED buildVars

\* mutant: the write-back resets every directory the result does not name
WrittenBack_ZeroesOthers ==
  [k \in DOMAIN dirs |->
     [dirs[k] EXCEPT !.size = IF k \in DOMAIN sizes THEN sizes[k] ELSE 0]]

\* mutant: the write-back replaces the record by one that holds the size only
WrittenBack_FreshRecord ==
  [k \in DOMAIN dirs |->
     IF k \in DOMAIN sizes THEN [DefaultDir EXCEPT !.size = sizes[k]] ELSE dirs[k]]

\* the tree after the write-back loop, lib.rs:76-80
WrittenBack ==
  [k \in DOMAIN dirs |->
     IF k \in DOMAIN sizes THEN [dirs[k] EXCEPT !.size = sizes[k]] ELSE dirs[k]]

\* lib.rs:76-80: every (path, size) of the result is written into the tree;
\* a path that is not in the tree is an error
MapWriteBack ==
  /\ pc = "calc_ok"
  /\ IF \E k \in DOMAIN sizes : k \notin DOMAIN dirs
       THEN /\ pc' = "map_err"
            /\ ret' = <<[kind |-> "missing_dir",
                         path |-> CHOOSE k \in DOMAIN sizes : k \notin DOMAIN dirs]>>
            /\ UNCHANGED dirs
       ELSE /\ pc' = "encode"
            /\ dirs' = WrittenBack
            /\ UNCHANGED ret
  /\ UNCHANGED <<start_path, stack, sizes, out, unmapped>>
  /\ UNCHANGED buildVars

\* the orders a HashMap with key set S may be iterated in
Orders(S) == {o \in [1..Cardinality(S) -> S] : Range(o) = S}

RECURSIVE Flatten(_)
\* the concatenation of a sequence of sequences
Flatten(ss) == IF ss = <<>> THEN <<>> ELSE ss[1] \o Flatten(Tail(ss))

\* bincode of a File: typ, name, size (lib.rs:17-22)
EncodeFile(f) == <<f.typ, f.name, f.size>>

\* mutant: the encoding of a record leaves the children out
EncodeDir_NoChildren(d) ==
  <<d.size, Len(d.file)>> \o Flatten([i \in DOMAIN d.file |-> EncodeFile(d.file[i])]) \o <<0>>

\* bincode of a Dir: size, then the length-prefixed file and children vectors
\* (lib.rs:10-15)
EncodeDir(d) ==
  <<d.size, Len(d.file)>> \o Flatten([i \in DOMAIN d.file |-> EncodeFile(d.file[i])]) \o
  <<Len(d.children)>> \o d.children

\* bincode of the map: its length, then each key and record in iteration
\* order, as one flat stream of values
Bincode(m, o) ==
  <<Len(o)>> \o Flatten([i \in DOMAIN o |-> <<o[i]>> \o EncodeDir(m[o[i]])])

\* zstd::encode_all at level 3: a lossless container around the payload
Zstd(payload) == [level |-> 3, payload |-> payload]

\* lib.rs:81-82: encode, compress, Ok(bytes)
MapEncode ==
  /\ pc = "encode"
  /\ \E o \in Orders(DOMAIN dirs) : out' = <<Zstd(Bincode(dirs, o))>>
  /\ pc' = "map_ok"
  /\ UNCHANGED <<start_path, dirs, stack, sizes, ret, unmapped>>
  /\ UNCHANGED buildVars

----------------------------------------------------------------------------
(* unmap, lib.rs:85-89 *)

\* zstd::decode_all: the payload of the container
Unzstd(data) == data.payload

\* a decoder's state: the stream, the next position, the value read so far,
\* and whether the stream ended early
Reader(b, pos, val, ok) == [b |-> b, pos |-> pos, val |-> val, ok |-> ok]

\* the value at the reader's position; running off the end is an error
Has(r, n) == r.ok /\ r.pos + n - 1 <= Len(r.b)

RECURSIVE DecodeFiles(_, _)
\* n File records: typ, name, size each
DecodeFiles(r, n) ==
  IF n = 0 \/ ~r.ok THEN r
  ELSE IF ~Has(r, 3) THEN [r EXCEPT !.ok = FALSE]
  ELSE DecodeFiles(
         Reader(r.b, r.pos + 3,
                Append(r.val, [typ |-> r.b[r.pos], name |-> r.b[r.pos + 1],
                               size |-> r.b[r.pos + 2]]), TRUE),
         n - 1)

RECURSIVE DecodeStrings(_, _)
\* n strings
DecodeStrings(r, n) ==
  IF n = 0 \/ ~r.ok THEN r
  ELSE IF ~Has(r, 1) THEN [r EXCEPT !.ok = FALSE]
  ELSE DecodeStrings(Reader(r.b, r.pos + 1, Append(r.val, r.b[r.pos]), TRUE), n - 1)

\* one Dir at position pos of b: size, files, children
DecodeDir(b, pos) ==
  LET r0 == Reader(b, pos, <<>>, TRUE)
  IN  IF ~Has(r0, 2) THEN [r0 EXCEPT !.ok = FALSE]
      ELSE LET fs == DecodeFiles(Reader(b, pos + 2, <<>>, TRUE), b[pos + 1])
           IN  IF ~Has(fs, 1) THEN [fs EXCEPT !.ok = FALSE]
               ELSE LET cs == DecodeStrings(Reader(b, fs.pos + 1, <<>>, TRUE), b[fs.pos])
                    IN  [cs EXCEPT !.val = [size |-> b[pos], file |-> fs.val,
                                            children |-> cs.val]]

RECURSIVE DecodeEntries(_, _)
\* n (key, Dir) pairs, each inserted into the HashMap read so far
DecodeEntries(r, n) ==
  IF n = 0 \/ ~r.ok THEN r
  ELSE IF ~Has(r, 1) THEN [r EXCEPT !.ok = FALSE]
  ELSE LET d == DecodeDir(r.b, r.pos + 1)
       IN  IF ~d.ok THEN [r EXCEPT !.ok = FALSE]
           ELSE DecodeEntries(Reader(r.b, d.pos, Put(r.val, r.b[r.pos], d.val), TRUE), n - 1)

\* bincode::decode_from_slice of a HashMap<String, Dir>; bytes after the map
\* are not an error
Unbincode(b) ==
  IF Len(b) = 0 THEN Reader(b, 1, EmptyMap, FALSE)
  ELSE DecodeEntries(Reader(b, 2, EmptyMap, TRUE), b[1])

\* lib.rs:85-89, called on the bytes map returned
Unmap ==
  /\ pc = "map_ok"
  /\ LET r == Unbincode(Unzstd(out[1]))
     IN  IF r.ok
           THEN pc' = "unmap_ok" /\ unmapped' = <<r.val>> /\ UNCHANGED ret
           ELSE pc' = "unmap_err" /\ ret' = <<[kind |-> "decode", path |-> <<>>]>>
                /\ UNCHANGED unmapped
  /\ UNCHANGED <<start_path, dirs, stack, sizes, out>>
  /\ UNCHANGED buildVars

----------------------------------------------------------------------------
(* map called on a directory tree *)

\* "d", "d/", "p/d" and "/"
StartPaths == {<<"d">>, <<"d", "">>, <<"p", "d">>, <<"/">>}

\* what may lie under the start path: the names from the start path down,
\* the file type, and the length the metadata reports
Candidates ==
  << [rel |-> <<"a">>,          typ |-> "dir",   len |-> 0],
     [rel |-> <<"a", "b">>,     typ |-> "dir",   len |-> 0],
     [rel |-> <<"a", "g">>,     typ |-> "file",  len |-> 2],
     [rel |-> <<"f.PNG">>,      typ |-> "file",  len |-> 1],
     [rel |-> <<"h.jpeg">>,     typ |-> "file",  len |-> 8],
     [rel |-> <<"l">>,          typ |-> "other", len |-> 0],
     [rel |-> <<"u1">>,         typ |-> "dir",   len |-> 0],
     [rel |-> <<"u1", "f.PNG">>, typ |-> "file", len |-> 4],
     [rel |-> <<"u2">>,         typ |-> "dir",   len |-> 0] >>

\* WalkDir lists an entry only below a directory it has listed
Closed(S) ==
  \A i \in S : Len(Candidates[i].rel) > 1 =>
    \E j \in S : /\ Candidates[j].typ = "dir"
                 /\ Candidates[j].rel = Front(Candidates[i].rel)

RECURSIVE Listed(_, _, _)
\* the entries of S below root, in the walk's order
Listed(root, S, i) ==
  IF i > Len(Candidates) THEN <<>>
  ELSE (IF i \in S
          THEN <<[path |-> JoinAll(root, Candidates[i].rel),
                  typ |-> Candidates[i].typ,
                  len |-> Candidates[i].len]>>
          ELSE <<>>) \o Listed(root, S, i + 1)

\* lib.rs:93-96: the entries WalkDir yields, errors filtered out.  kind is the
\* file type of the start path's own entry, "skipped" when reading it failed
Enumerated(root, kind, S) ==
  IF kind = "skipped" THEN <<>>
  ELSE <<[path |-> root, typ |-> kind, len |-> 1]>> \o Listed(root, S, 1)

\* what the start path's own entry can be: "/" is a directory, and a path
\* with a trailing separator names a directory or cannot be read
RootKinds(root) ==
  IF root = <<"/">> THEN {"dir"}
  ELSE IF Last(root) = "" THEN {"dir", "skipped"}
  ELSE {"dir", "file", "other", "skipped"}

InitMap ==
  /\ start_path \in StartPaths
  /\ \E kind \in RootKinds(start_path), S \in SUBSET DOMAIN Candidates :
       /\ Closed(S)
       /\ Cardinality(S) < MaxEntries
       /\ kind # "dir" => S = {}
       /\ entries = Enumerated(start_path, kind, S)
  /\ pc = "phaseA"
  /\ taskA = [i \in DOMAIN entries |-> IF entries[i].typ = "dir" THEN "todo" ELSE "none"]
  /\ taskB = [i \in DOMAIN entries |-> "start"]
  /\ local = [i \in DOMAIN entries |-> <<>>]
  /\ dirs = EmptyMap
  /\ error = <<>>
  /\ dirs_lock = 0
  /\ error_lock = 0
  /\ err_log = <<>>
  /\ stack = <<>>
  /\ sizes = EmptyMap
  /\ ret = <<>>
  /\ out = <<>>
  /\ unmapped = <<>>

NextMap ==
  \/ \E i \in Tasks : PhaseAInsert(i)
  \/ PhaseAJoin
  \/ \E i \in Tasks : BCheck(i)
  \/ \E i \in Tasks : BStatOk(i)
  \/ \E i \in Tasks : BStatErr(i)
  \/ \E i \in Tasks : BLockDirs(i)
  \/ \E i \in Tasks : BUpdate(i)
  \/ \E i \in Tasks : BErrLock(i)
  \/ \E i \in Tasks : BStore(i)
  \/ BuildReturn
  \/ MapBuildErr
  \/ MapCallCalc
  \/ CalcProcess
  \/ CalcCalculate
  \/ CalcReturn
  \/ MapCalcErr
  \/ MapWriteBack
  \/ MapEncode
  \/ Unmap

SpecMap == InitMap /\ [][NextMap]_vars

----------------------------------------------------------------------------
(* calc_size called on a hand-made snapshot (the function is pub): any      *)
(* children lists over a subset of three paths, with cycles, repeated       *)
(* children and children that are not keys                                  *)

R == <<"d">>

A == <<"d", "a">>

B == <<"d", "b">>

C == <<"d", "b", "c">>

CalcPaths == {R, A, B}

\* own size a directory has when it holds files: distinct powers of two
Weight(p) == IF p = R THEN 1 ELSE IF p = A THEN 2 ELSE 4

\* the snapshot with keys K and children lists ch
Snapshot(K, ch) ==
  [p \in K |-> [size |-> Weight(p), file |-> <<>>, children |-> ch[p]]]

\* the tree of the specification's aggregation example
ExampleTree ==
  (R :> [size |-> 0, file |-> <<>>, children |-> <<A, B>>]) @@
  (A :> [size |-> 100, file |-> <<>>, children |-> <<>>]) @@
  (B :> [size |-> 50, file |-> <<>>, children |-> <<C>>]) @@
  (C :> [size |-> 25, file |-> <<>>, children |-> <<>>])

\* a single directory without files or children
EmptyDirTree == (R :> DefaultDir)

InitCalc ==
  /\ start_path = R
  /\ \/ \E K \in SUBSET CalcPaths :
          \E ch \in [K -> SeqsUpTo(CalcPaths, MaxKids)] : dirs = Snapshot(K, ch)
     \/ dirs \in {ExampleTree, EmptyDirTree}
  /\ pc = "calc"
  /\ stack = <<Process(start_path)>>
  /\ sizes = EmptyMap
  /\ entries = <<>>
  /\ taskA = <<>>
  /\ taskB = <<>>
  /\ local = <<>>
  /\ error = <<>>
  /\ dirs_lock = 0
  /\ error_lock = 0
  /\ err_log = <<>>
  /\ ret = <<>>
  /\ out = <<>>
  /\ unmapped = <<>>

NextCalc == CalcProcess \/ CalcCalculate \/ CalcReturn

SpecCalc == InitCalc /\ [][NextCalc]_vars

----------------------------------------------------------------------------
(* The methods of Dir (all pub) called in any order on a default record,    *)
(* held under the key start_path; pc names the method that returned last    *)

\* the record the methods are called on
TheDir == dirs[start_path]

\* File arguments: two files of one name with different sizes, and a third
DirFiles ==
  { [typ |-> 0, name |-> "f.PNG", size |-> 1],
    [typ |-> 0, name |-> "f.PNG", size |-> 2],
    [typ |-> 5, name |-> "g", size |-> 4] }

\* Vec<String> arguments of remove_file: names in the list or not
DirFileNames == SeqsUpTo({"f.PNG", "g", "x"}, 2)

\* Vec<String> arguments of remove_child
DirChildNames == SeqsUpTo({A, B, C}, 2)

\* what a method call leaves alone
DirFrame ==
  /\ UNCHANGED <<start_path, stack, sizes, ret, out, unmapped>>
  /\ UNCHANGED buildVars

\* dir.add_file(f), lib.rs:25-28
DirAddFile ==
  /\ pc \in {"new", "add_file", "remove_file", "add_child", "remove_child"}
  /\ Len(TheDir.file) < MaxFiles
  /\ \E f \in DirFiles : dirs' = [dirs EXCEPT ![start_path] = add_file(@, f)]
  /\ pc' = "add_file"
  /\ DirFrame

\* dir.remove_file(files), lib.rs:30-33
DirRemoveFile ==
  /\ pc \in {"new", "add_file", "remove_file", "add_child", "remove_child"}
  /\ \E files \in DirFileNames : dirs' = [dirs EXCEPT ![start_path] = remove_file(@, files)]
  /\ pc' = "remove_file"
  /\ DirFrame

\* dir.add_child(child), lib.rs:35-37
DirAddChild ==
  /\ pc \in {"new", "add_file", "remove_file", "add_child", "remove_child"}
  /\ Len(TheDir.children) < MaxKids
  /\ \E c \in {A, B} : dirs' = [dirs EXCEPT ![start_path] = add_child(@, c)]
  /\ pc' = "add_child"
  /\ DirFrame

\* dir.remove_child(children), lib.rs:39-41
DirRemoveChild ==
  /\ pc \in {"new", "add_file", "remove_file", "add_child", "remove_child"}
  /\ \E cs \in DirChildNames : dirs' = [dirs EXCEPT ![start_path] = remove_child(@, cs)]
  /\ pc' = "remove_child"
  /\ DirFrame

\* Dir::default(), lib.rs:10 (derive Default)
InitDir ==
  /\ start_path = R
  /\ dirs = (R :> DefaultDir)
  /\ pc = "new"
  /\ stack = <<>>
  /\ sizes = EmptyMap
  /\ entries = <<>>
  /\ taskA = <<>>
  /\ taskB = <<>>
  /\ local = <<>>
  /\ error = <<>>
  /\ dirs_lock = 0
  /\ error_lock = 0
  /\ err_log = <<>>
  /\ ret = <<>>
  /\ out = <<>>
  /\ unmapped = <<>>

NextDir == DirAddFile \/ DirRemoveFile \/ DirAddChild \/ DirRemoveChild

SpecDir == InitDir /\ [][NextDir]_vars

----------------------------------------------------------------------------
(* Shape of a snapshot *)

Keys == DOMAIN dirs

Kids(p) == IF p \in Keys THEN Range(dirs[p].children) ELSE {}

RECURSIVE ReachFrom(_)
\* the names reachable from the set S through children lists (S included)
ReachFrom(S) ==
  LET N == S \cup UNION {Kids(p) : p \in S}
  IN  IF N = S THEN S ELSE ReachFrom(N)

Reachable == ReachFrom({start_path})

\* some directory reachable from the start path is its own descendant
CycleReachable == \E p \in Reachable : p \in ReachFrom(Kids(p))

\* the start path or a child listed by a reachable directory is not a key
MissingReachable == \E p \in Reachable : p \notin Keys

NoDuplicates(s) == \A i, j \in DOMAIN s : i # j => s[i] # s[j]

\* every child is a key, no cycle, no directory listed twice or under two parents
IsTree ==
  /\ \A p \in Keys : Kids(p) \subseteq Keys
  /\ \A p \in Keys : p \notin ReachFrom(Kids(p))
  /\ \A p \in Keys : NoDuplicates(dirs[p].children)
  /\ \A p, q \in Keys : p # q => Kids(p) \cap Kids(q) = {}

RECURSIVE SumOwn(_)
\* the sum of the own sizes of the directories in S
SumOwn(S) ==
  IF S = {} THEN 0
  ELSE LET x == CHOOSE x \in S : TRUE IN dirs[x].size + SumOwn(S \ {x})

\* own sizes summed over d and all its descendants
SubtreeSum(d) == SumOwn(ReachFrom({d}))

\* Calculate(p) is pending twice: Process(p) was expanded while its own
\* Calculate(p) was still on the stack.  The loop reads only the stack top and
\* the immutable snapshot, so from here it repeats the same expansion for ever.
Reentered ==
  \E i, j \in DOMAIN stack :
    i < j /\ stack[i].tag = "Calculate" /\ stack[j] = stack[i]

----------------------------------------------------------------------------
(* Claims about calc_size *)

\* C1: on a snapshot with a child-reference cycle reachable from the start
\* path calc_size fails fast: it never expands a directory whose Calculate is
\* still pending (which is where it would start to loop and grow its stack
\* for ever).
C1_CycleFailsFast == CycleReachable => ~Reentered

\* C2: on a tree that holds the start path calc_size never fails, and when it
\* returns, every directory d reachable from the start path has
\* result[d] = own(d) + sum of result[c] over d's children
\*           = sum of the own sizes of d and all its descendants.
C2_TreeSizes ==
  (IsTree /\ start_path \in Keys) =>
    /\ pc # "calc_err"
    /\ pc = "calc_ok" =>
         \A d \in Reachable :
           /\ d \in DOMAIN sizes
           /\ sizes[d] = dirs[d].size + SumSizes(sizes, dirs[d].children)
           /\ sizes[d] = SubtreeSum(d)

\* C2 witness: the specification's example, root=175, A=100, B=75, C=25
C2_Witness ==
  /\ pc = "calc_ok"
  /\ dirs = ExampleTree
  /\ sizes = (R :> 175) @@ (A :> 100) @@ (B :> 75) @@ (C :> 25)

\* C10: whenever the start path or a child listed by a reachable directory is
\* not a key, calc_size returns an error: it neither returns Ok nor runs into
\* the endless re-expansion of a directory.
C10_MissingKeyFails == MissingReachable => (pc # "calc_ok" /\ ~Reentered)

----------------------------------------------------------------------------
(* Claims about build_tree *)

CountIn(s, x) == Cardinality({i \in DOMAIN s : s[i] = x})

IsFile(i) == entries[i].typ = "file"

\* a directory entry that build_tree links to a parent: it has a parent, and
\* the parent path is not empty
IsLinkedDir(i) ==
  entries[i].typ = "dir" /\ ParentOf(i) # <<>> /\ ParentOf(i)[1] # <<>>

\* the start path's own entry is the first one, at depth 0
IsRoot(i) == i = 1

\* the file entries that belong under key k / the directory entries linked under k
FilesUnder(k) == {i \in Tasks : IsFile(i) /\ ParentOf(i) # <<>> /\ ParentKey(i) = k}

DirsUnder(k) == {i \in Tasks : IsLinkedDir(i) /\ ParentKey(i) = k}

RECURSIVE SumLen(_)
SumLen(S) ==
  IF S = {} THEN 0
  ELSE LET i == CHOOSE i \in S : TRUE IN entries[i].len + SumLen(S \ {i})

\* C3: the start path's own directory entry, whose parent lies outside the
\* scanned tree, never takes the missing-parent branch (so it records no error
\* and build_tree can succeed).
C3_RootHasNoParent ==
  (entries # <<>> /\ entries[1].typ = "dir") => taskB[1] \notin {"want_err", "storing"}

\* C4: the error slot is written at most once, and the error build_tree
\* returns is the first one that was stored.
C4_ErrorStoredOnce ==
  /\ Len(err_log) <= 1
  /\ pc = "bt_err" => ret = <<err_log[1]>>

\* C5: build_tree returns Err whenever a worker stored an error, and when it
\* returns Ok every file entry is in its parent's file list and every
\* directory entry but the start path's is in its parent's children list, once
\* per entry.
C5_NoPartialSuccess ==
  /\ (err_log # <<>> /\ pc \notin {"phaseA", "phaseB"}) =>
       (pc \in {"bt_err", "map_err"} /\ ret # <<>>)
  /\ pc = "bt_ok" =>
       \A i \in Tasks :
         /\ IsFile(i) =>
              /\ ParentOf(i) # <<>>
              /\ ParentKey(i) \in DOMAIN dirs
              /\ CountIn(dirs[ParentKey(i)].file, FileOf(entries[i])) =
                   Cardinality({j \in FilesUnder(ParentKey(i)) :
                                  FileOf(entries[j]) = FileOf(entries[i])})
         /\ (entries[i].typ = "dir" /\ ~IsRoot(i)) =>
              /\ IsLinkedDir(i)
              /\ ParentKey(i) \in DOMAIN dirs
              /\ CountIn(dirs[ParentKey(i)].children, DirKey(i)) =
                   Cardinality({j \in DirsUnder(ParentKey(i)) : DirKey(j) = DirKey(i)})

\* C5 witness: Ok with a file and a sub-directory linked, and no error stored
C5_Witness ==
  /\ pc = "bt_ok"
  /\ \E i, j \in Tasks : IsFile(i) /\ entries[j].typ = "dir" /\ ~IsRoot(j)

\* C6: whatever the interleaving, a successful build_tree returns the mapping
\* the entries determine: the keys of the directory entries, and per key the
\* summed length, the multiset of files and the multiset of children.
C6_OrderIndependent ==
  pc = "bt_ok" =>
    /\ DOMAIN dirs = {DirKey(i) : i \in {j \in Tasks : entries[j].typ = "dir"}}
    /\ \A k \in DOMAIN dirs :
         /\ dirs[k].size = SumLen(FilesUnder(k))
         /\ Len(dirs[k].file) = Cardinality(FilesUnder(k))
         /\ \A i \in FilesUnder(k) :
              CountIn(dirs[k].file, FileOf(entries[i])) =
                Cardinality({j \in FilesUnder(k) : FileOf(entries[j]) = FileOf(entries[i])})
         /\ Len(dirs[k].children) = Cardinality(DirsUnder(k))
         /\ \A i \in DirsUnder(k) :
              CountIn(dirs[k].children, DirKey(i)) =
                Cardinality({j \in DirsUnder(k) : DirKey(j) = DirKey(i)})

\* C6 witness: Ok with two files appended in the reverse of the walk's order
C6_Witness ==
  /\ pc = "bt_ok"
  /\ \E k \in DOMAIN dirs :
       /\ Len(dirs[k].file) = 2
       /\ dirs[k].file[1].name = "h.jpeg"
       /\ dirs[k].file[2].name = "f.PNG"

\* C7: in a mapping build_tree returns, every child string is a key.
C7_ChildrenAreKeys ==
  pc = "bt_ok" => \A k \in DOMAIN dirs : Range(dirs[k].children) \subseteq DOMAIN dirs

\* C7 witness: Ok with a directory that has two children under one key
C7_Witness ==
  /\ pc = "bt_ok"
  /\ \E k \in DOMAIN dirs : Len(dirs[k].children) = 2 /\ dirs[k].children[1] = dirs[k].children[2]

\* C8: a mapping build_tree returns holds the start path as a key.
C8_StartIsKey == pc = "bt_ok" => start_path \in DOMAIN dirs

\* the directory entries whose path names the directory p (Path equality is
\* by components)
EnumeratedDir(p) ==
  {j \in Tasks : entries[j].typ = "dir" /\ Components(entries[j].path) = Components(p)}

\* C9, first half: once any closure of the second pass has started, every
\* insert of the first pass is done and its key is in the mapping.
C9_PhaseABeforeB ==
  (\E i \in Tasks : taskB[i] # "start") =>
    \A j \in Tasks : entries[j].typ = "dir" =>
      (taskA[j] = "done" /\ RegisteredKey(j) \in DOMAIN dirs)

\* C9: the first pass is complete before any step of the second, and so every
\* parent lookup of the second pass whose parent is an enumerated directory
\* finds the key.
C9_ParentLookupFinds ==
  /\ C9_PhaseABeforeB
  /\ \A i \in Tasks :
       (taskB[i] = "in_dirs" /\ EnumeratedDir(ParentOf(i)[1]) # {}) =>
         ParentKey(i) \in DOMAIN dirs

----------------------------------------------------------------------------
(* Claims about the result of calc_size and its write-back *)

\* C11: when calc_size succeeds, the keys of its result are exactly the
\* directories reachable from the start path through children lists; every
\* one is a key of the snapshot, so the write-back of map does not take its
\* "directory does not exist" branch, and the write-back leaves the size of
\* every directory that is not reachable from the start path as it was.
C11_ResultKeysReachable ==
  pc = "calc_ok" =>
    /\ DOMAIN sizes = Reachable
    /\ DOMAIN sizes \subseteq DOMAIN dirs
    /\ \A k \in DOMAIN dirs \ Reachable : WrittenBack[k].size = dirs[k].size

\* C11 witness: Ok on a snapshot with a child below the start path and a
\* directory with files that the start path does not reach
C11_Witness ==
  /\ pc = "calc_ok"
  /\ DOMAIN sizes = {R, A}
  /\ B \in DOMAIN dirs
  /\ dirs[B].size > 0

----------------------------------------------------------------------------
(* Claims about map and unmap *)

\* C12: round trip.  unmap applied to the bytes map returned yields Ok with
\* a mapping equal to the snapshot after aggregation: the same keys, and per
\* key the same size, the same file list and the same children list.
C12_RoundTrip ==
  /\ pc # "unmap_err"
  /\ pc = "unmap_ok" =>
       /\ unmapped # <<>>
       /\ DOMAIN unmapped[1] = DOMAIN dirs
       /\ \A k \in DOMAIN dirs :
            /\ unmapped[1][k].size = dirs[k].size
            /\ unmapped[1][k].file = dirs[k].file
            /\ unmapped[1][k].children = dirs[k].children

\* C12 witness: a decoded snapshot of two directories in which the start
\* path's record carries an aggregated size, files and a child
C12_Witness ==
  /\ pc = "unmap_ok"
  /\ Cardinality(DOMAIN unmapped[1]) >= 2
  /\ \E k \in DOMAIN unmapped[1] :
       /\ unmapped[1][k].file # <<>>
       /\ unmapped[1][k].children # <<>>
       /\ unmapped[1][k].size > FileSizeSum(unmapped[1][k].file)

\* the directory records of the two mappings agree on everything but size
SameButSize(m1, m2) ==
  /\ DOMAIN m1 = DOMAIN m2
  /\ \A k \in DOMAIN m1 :
       /\ m1[k].file = m2[k].file
       /\ m1[k].children = m2[k].children

\* C13: aggregation and the write-back change only the size field.  From the
\* return of build_tree on, no step of calc_size changes the snapshot, and the
\* write-back step keeps the key set and every directory's file list and
\* children list.
C13_OnlySizeChanges ==
  [][/\ pc \in {"bt_ok", "calc", "calc_err"} => dirs' = dirs
     /\ pc = "calc_ok" => SameButSize(dirs, dirs')]_vars

\* C13 witness: the write-back has raised the size of a directory that holds
\* files and a child
C13_Witness ==
  /\ pc = "encode"
  /\ \E k \in DOMAIN dirs :
       /\ dirs[k].file # <<>>
       /\ dirs[k].children # <<>>
       /\ dirs[k].size > FileSizeSum(dirs[k].file)

----------------------------------------------------------------------------
(* Claims about the second pass of build_tree *)

\* C14: cooperative cancellation.  A closure whose initial check finds an
\* error recorded ends there: that step and every later one leave it done, and
\* the step changes neither the mapping nor the error slot.  Every step of the
\* second pass that changes the mapping or stores an error is taken by a
\* closure that had passed its check.
C14_CheckedWorkersStop ==
  [][pc = "phaseB" =>
       /\ \A i \in Tasks :
            /\ (taskB[i] = "start" /\ taskB'[i] # "start" /\ error # <<>>) =>
                 /\ taskB'[i] = "done"
                 /\ UNCHANGED <<dirs, error, err_log>>
            /\ taskB[i] = "done" => taskB'[i] = "done"
       /\ (dirs' # dirs \/ err_log' # err_log) =>
            \E j \in Tasks : taskB[j] \in {"in_dirs", "storing"} /\ taskB'[j] = "done"]_vars

\* C14 witness: with a missing-parent error stored, one file's closure has
\* ended at its check (no File was built) while another, which had passed the
\* check before, holds the mapping lock and is about to add its file
C14_Witness ==
  /\ pc = "phaseB"
  /\ Len(err_log) = 1
  /\ error # <<>>
  /\ err_log[1].kind = "missing_parent"
  /\ \E i, j \in Tasks :
       /\ entries[i].typ = "file" /\ taskB[i] = "done" /\ local[i] = <<>>
       /\ entries[j].typ = "file" /\ taskB[j] = "in_dirs"
       /\ ParentKey(j) \in DOMAIN dirs

----------------------------------------------------------------------------
(* Claims about the work stack of calc_size *)

\* C15: on a tree that holds the start path, at every step of calc_size the
\* work stack holds at most one item per directory: every item names a
\* directory of the snapshot, no directory is named twice, and so the stack
\* is never longer than the number of directories.
C15_StackBounded ==
  (IsTree /\ start_path \in Keys /\ pc = "calc") =>
    /\ \A i \in DOMAIN stack : stack[i].path \in Keys
    /\ \A i, j \in DOMAIN stack : i # j => stack[i].path # stack[j].path
    /\ Len(stack) <= Cardinality(Keys)

\* C15 witness: the stack holds an item for each of the three directories
C15_Witness ==
  /\ IsTree
  /\ pc = "calc"
  /\ Cardinality(Keys) = 3
  /\ Len(stack) = 3
  /\ stack[1].tag = "Calculate"

----------------------------------------------------------------------------
(* Claims about the sizes build_tree records *)

\* C16: when build_tree returns Ok, each directory's size is the sum of the
\* sizes of the file records in its own file list: immediate files only,
\* nothing from subdirectories.
C16_OwnSizeOnly ==
  pc = "bt_ok" => \A k \in DOMAIN dirs : dirs[k].size = FileSizeSum(dirs[k].file)

\* C16 witness: Ok with a directory that holds a file of its own and a child
\* directory that holds a file of another size
C16_Witness ==
  /\ pc = "bt_ok"
  /\ \E k, c \in DOMAIN dirs :
       /\ c \in Range(dirs[k].children)
       /\ dirs[k].file # <<>>
       /\ dirs[c].file # <<>>
       /\ dirs[k].size = FileSizeSum(dirs[k].file)
       /\ dirs[c].size # dirs[k].size

\* the Calculate item on top of the stack would take neither error branch
CalculateReady ==
  (pc = "calc" /\ stack # <<>> /\ Top.tag = "Calculate") =>
    /\ Top.path \in DOMAIN dirs
    /\ \A c \in Range(dirs[Top.path].children) : c \in DOMAIN sizes

\* C17: for every snapshot, with dangling children or cycles too, whenever a
\* Calculate(p) item is popped every child of p has an entry in the result
\* map, so the missing-child-size branch is never taken; every error
\* calc_size returns is raised while a Process item is being handled.
C17_CalculateNeverFails ==
  /\ []CalculateReady
  /\ [][(pc = "calc" /\ pc' = "calc_err") => Top.tag = "Process"]_vars

\* C17 witness: on a snapshot with a cycle, Calculate is popped for a
\* directory whose child has been summed
C17_Witness ==
  /\ pc = "calc"
  /\ CycleReachable
  /\ stack # <<>>
  /\ Top.tag = "Calculate"
  /\ Top.path \in DOMAIN dirs
  /\ dirs[Top.path].children # <<>>
  /\ Range(dirs[Top.path].children) \subseteq DOMAIN sizes

\* the order in which the second pass takes its two locks: the error lock is
\* held only for the store itself, by a closure that holds nothing else or
\* the mapping lock; a closure that waits for the mapping lock holds no lock
LockOrder ==
  /\ error_lock # 0 => taskB[error_lock] = "storing"
  /\ dirs_lock # 0 => taskB[dirs_lock] \in {"in_dirs", "want_err", "storing"}
  /\ \A i \in Tasks :
       /\ taskB[i] = "want_dirs" => (error_lock # i /\ dirs_lock # i)
       /\ taskB[i] = "want_err" => error_lock # i
       /\ taskB[i] \in {"start", "stat", "done"} => (error_lock # i /\ dirs_lock # i)

\* how far a closure of the second pass has come
Position(t) ==
  CASE t = "start" -> 0
    [] t = "stat" -> 1
    [] t = "want_dirs" -> 2
    [] t = "in_dirs" -> 3
    [] t = "want_err" -> 4
    [] t = "storing" -> 5
    [] t = "done" -> 6

RECURSIVE Progress(_, _)
\* the positions of the closures 1..n of tb, summed
Progress(tb, n) == IF n = 0 THEN 0 ELSE Position(tb[n]) + Progress(tb, n - 1)

\* C18: the second pass is deadlock-free.  The error lock is taken with no
\* lock held or with the mapping lock held and the mapping lock is never
\* requested while the error lock is held; in every state of the pass some
\* step can be taken, and every step moves one closure forward, so with fair
\* scheduling every closure finishes and build_tree returns.
C18_DeadlockFree ==
  /\ []LockOrder
  /\ [](pc = "phaseB" => ENABLED NextMap)
  /\ [][(pc = "phaseB" /\ pc' = "phaseB") =>
          Progress(taskB', Len(entries)) > Progress(taskB, Len(entries))]_vars

\* C18 witness: a closure that holds the mapping lock waits for the error
\* lock while another closure holds it
C18_Witness ==
  /\ pc = "phaseB"
  /\ \E i, j \in Tasks :
       /\ i # j
       /\ dirs_lock = i
       /\ taskB[i] = "want_err"
       /\ error_lock = j

----------------------------------------------------------------------------
(* Claims about the methods of Dir *)

\* C19: starting from a default Dir, after any sequence of add_file,
\* remove_file, add_child and remove_child calls the record's size is the sum
\* of the sizes of the files in its file list; add_child and remove_child
\* leave the size and the file list unchanged, and remove_file leaves the
\* children unchanged.
C19_SizeIsFileSum ==
  /\ [](TheDir.size = FileSizeSum(TheDir.file))
  /\ [][/\ pc' \in {"add_child", "remove_child"} =>
            /\ TheDir'.size = TheDir.size
            /\ TheDir'.file = TheDir.file
        /\ pc' = "remove_file" => TheDir'.children = TheDir.children]_vars

\* C19 witness: remove_file has returned on a record that lists a child and
\* is left with two files whose sizes add up to the record's size
C19_Witness ==
  /\ pc = "remove_file"
  /\ TheDir.children # <<>>
  /\ Len(TheDir.file) = 2
  /\ TheDir.size = 3

====
